---- MODULE Spec2Model ----
(***************************************************************************)
(* Model of the FIDE rating scraper (src/fide_scraper.py): the ledger file *)
(* fide_ratings.csv, its reader and writer, the new-month detector, the    *)
(* history extractor and the batch loop of one run of main().              *)
(*                                                                         *)
(* Representation.  A Python str is a sequence of one-character strings,   *)
(* so that '' is <<>>, "2222" is <<"2","2","2","2">> and comparison, strip *)
(* and isdigit work character by character.  An Optional value is <<>> for *)
(* None and <<v>> for a value v.  A dict is a function whose DOMAIN is the *)
(* set of its keys.  A datetime.date is a record [year, month, day].       *)
(***************************************************************************)
EXTENDS Integers, Sequences, FiniteSets, TLC

\* Bounds of the model.
MaxBatch == 2        \* longest list of FIDE IDs handed to process_batch
MaxLedgerRows == 2   \* most data rows of the ledger file a run starts with
MaxTableRows == 2    \* most data rows of a profile's rating table
MaxRetries == 2      \* greatest max_retries handed to _post_rating_to_api

None == <<>>
Some(v) == <<v>>
Val(o) == o[1]

Range(s) == {s[i] : i \in 1..Len(s)}

(***************************************************************************)
(* Strings.                                                                *)
(***************************************************************************)
Digits == <<"0", "1", "2", "3", "4", "5", "6", "7", "8", "9">>

\* SUPERSCRIPT TWO (U+00B2), a character that is none of "0".."9" and for
\* which str.isdigit() is True; int() does not accept it.
SuperscriptTwo == "^2"

\* The characters of the model in code point order (Python compares str by
\* code point).
Alphabet == <<" ", "-", "0", "1", "2", "3", "4", "5", "6", "7", "8", "9",
              "A", "B", "O", "x", SuperscriptTwo>>

Ord(c) == CHOOSE i \in 1..Len(Alphabet) : Alphabet[i] = c

\* str.isdigit()
isdigit(s) == s # <<>> /\ \A i \in 1..Len(s) : s[i] \in Range(Digits) \cup {SuperscriptTwo}

\* str.__lt__
RECURSIVE StrLess(_, _)
StrLess(s, t) ==
    IF t = <<>> THEN FALSE
    ELSE IF s = <<>> THEN TRUE
    ELSE IF s[1] = t[1] THEN StrLess(Tail(s), Tail(t))
    ELSE Ord(s[1]) < Ord(t[1])

\* str.strip()
RECURSIVE lstrip(_)
lstrip(s) == IF s # <<>> /\ s[1] = " " THEN lstrip(Tail(s)) ELSE s

RECURSIVE rstrip(_)
rstrip(s) ==
    IF s # <<>> /\ s[Len(s)] = " " THEN rstrip(SubSeq(s, 1, Len(s) - 1)) ELSE s

strip(s) == rstrip(lstrip(s))

\* str(n) of a non-negative int
RECURSIVE IntToStr(_)
IntToStr(n) ==
    IF n < 10 THEN <<Digits[n + 1]>>
    ELSE IntToStr(n \div 10) \o <<Digits[(n % 10) + 1]>>

\* n as exactly w decimal digits, zero padded
RECURSIVE ZeroPad(_, _)
ZeroPad(n, w) ==
    IF w = 0 THEN <<>> ELSE ZeroPad(n \div 10, w - 1) \o <<Digits[(n % 10) + 1]>>

\* date.isoformat(): YYYY-MM-DD
isoformat(d) ==
    ZeroPad(d.year, 4) \o <<"-">> \o ZeroPad(d.month, 2) \o <<"-">> \o ZeroPad(d.day, 2)

\* dict.get(key, default)
Get(d, key, default) == IF key \in DOMAIN d THEN d[key] ELSE default

Max(S) == CHOOSE x \in S : \A y \in S : y <= x
Min(S) == CHOOSE x \in S : \A y \in S : x <= y

(***************************************************************************)
(* The ledger file and the csv module.                                     *)
(*                                                                         *)
(* A file is [exists, fault, header, lines]: fault is the exception that   *)
(* opening it for reading or decoding its bytes raises ("none" when it     *)
(* reads cleanly), header is its first line (<<>> for a zero-byte file)    *)
(* and lines are its data lines, each with one cell per header column.     *)
(***************************************************************************)
NoExc == "none"

fieldnames == <<"Date", "FIDE ID", "Player Name", "Standard", "Rapid", "Blitz">>

AbsentFile == [exists |-> FALSE, fault |-> NoExc, header |-> <<>>, lines |-> <<>>]

\* csv.DictReader: one dict per data line, keyed by the header's columns
\* (a column named twice keeps the value of its last occurrence).
DictReader(f) ==
    [i \in 1..Len(f.lines) |->
        [c \in Range(f.header) |->
            f.lines[i][Max({j \in 1..Len(f.header) : f.header[j] = c})]]]

\* The dict built by `d[key] = row` over rows in order: the last row of each
\* key stays, where key = (row['FIDE ID'], row['Date']) with '' for a column
\* the row does not have.
RowKey(row) == <<Get(row, "FIDE ID", <<>>), Get(row, "Date", <<>>)>>

RowsByKey(rows) ==
    [k \in {RowKey(rows[i]) : i \in 1..Len(rows)} |->
        rows[Max({i \in 1..Len(rows) : RowKey(rows[i]) = k})]]

\* Faulty variant: the file is opened for writing before it is read, so no
\* existing row is seen.
existing_rows_by_key_unread(f) == <<>>

\* write_csv_output, lines 933-941
existing_rows_by_key(f) ==
    IF f.exists THEN RowsByKey(DictReader(f)) ELSE <<>>

\* A rating as it reaches the file: '' for None, str(int) otherwise
\* (lines 966-968 and the csv writer's str()).
RatingCell(v) == IF v = None THEN <<>> ELSE IntToStr(Val(v))

\* write_csv_output, lines 952-969: the rows of one profile, one per month
MonthRow(profile, month_record) ==
    ("Date" :> isoformat(Val(month_record.date)))
    @@ ("FIDE ID" :> profile.fide_id)
    @@ ("Player Name" :> profile.player_name)
    @@ ("Standard" :> RatingCell(month_record.standard))
    @@ ("Rapid" :> RatingCell(month_record.rapid))
    @@ ("Blitz" :> RatingCell(month_record.blitz))

ProfileRows(profile) ==
    LET dated == SelectSeq(profile.rating_history, LAMBDA m : m.date # None)
    IN  [i \in 1..Len(dated) |-> MonthRow(profile, dated[i])]

RECURSIVE AllProfileRows(_)
AllProfileRows(player_profiles) ==
    IF player_profiles = <<>> THEN <<>>
    ELSE ProfileRows(Head(player_profiles)) \o AllProfileRows(Tail(player_profiles))

\* Faulty variant: only the most recent month of each profile is written.
new_rows_by_key_latest_only(player_profiles) ==
    RowsByKey(AllProfileRows(
        [i \in 1..Len(player_profiles) |->
            [player_profiles[i] EXCEPT
                !.rating_history = SubSeq(@, 1, IF @ = <<>> THEN 0 ELSE 1)]]))

\* Faulty variant: the months of this run are not in the file yet when
\* write_csv_output returns.
new_rows_by_key_not_yet(player_profiles) == RowsByKey(<<>>)

\* write_csv_output, lines 944-971
new_rows_by_key(player_profiles) == RowsByKey(AllProfileRows(player_profiles))

\* Faulty variant: {**new_rows_by_key, **existing_rows_by_key}
merged_rows_by_key_keep_existing(existing, new) ==
    [k \in DOMAIN existing \cup DOMAIN new |->
        IF k \in DOMAIN existing THEN existing[k] ELSE new[k]]

\* write_csv_output, line 974: {**existing_rows_by_key, **new_rows_by_key}
merged_rows_by_key(existing, new) ==
    [k \in DOMAIN existing \cup DOMAIN new |->
        IF k \in DOMAIN new THEN new[k] ELSE existing[k]]

\* tuple comparison of (FIDE ID, Date) keys
KeyLess(k1, k2) ==
    \/ StrLess(k1[1], k2[1])
    \/ k1[1] = k2[1] /\ StrLess(k1[2], k2[2])

\* Faulty variant: sorted(keys, reverse=True)
RECURSIVE sorted_reversed(_)
sorted_reversed(keys) ==
    IF keys = {} THEN <<>>
    ELSE LET greatest == CHOOSE k \in keys : \A o \in keys \ {k} : KeyLess(o, k)
         IN  <<greatest>> \o sorted_reversed(keys \ {greatest})

\* sorted(keys)
RECURSIVE sorted(_)
sorted(keys) ==
    IF keys = {} THEN <<>>
    ELSE LET least == CHOOSE k \in keys : \A o \in keys \ {k} : KeyLess(k, o)
         IN  <<least>> \o sorted(keys \ {least})

\* csv.DictWriter.writerow: a key outside fieldnames raises ValueError,
\* a missing one is written as ''.
wrong_fields(row) == DOMAIN row \ Range(fieldnames)

DictWriterLine(row) == [i \in 1..Len(fieldnames) |-> Get(row, fieldnames[i], <<>>)]

\* Faulty variant: the new rows are appended to the file as it is
\* (mode 'a') instead of being merged into it.
write_csv_output_append(f, player_profiles) ==
    IF f.exists /\ f.fault # NoExc THEN [file |-> f, exc |-> f.fault]
    ELSE
        LET rows == AllProfileRows(player_profiles)
        IN  [file |-> [exists |-> TRUE, fault |-> NoExc,
                       header |-> IF f.exists THEN f.header ELSE fieldnames,
                       lines |-> (IF f.exists THEN f.lines ELSE <<>>)
                                 \o [i \in 1..Len(rows) |-> DictWriterLine(rows[i])]],
             exc |-> NoExc]

\* Faulty variant: `for key in merged_rows_by_key` without sorted(): the rows
\* come in the order their keys entered the dict, the file's first.
write_csv_output_unsorted(f, player_profiles) ==
    IF f.exists /\ f.fault # NoExc THEN [file |-> f, exc |-> f.fault]
    ELSE
        LET all == (IF f.exists THEN DictReader(f) ELSE <<>>)
                       \o AllProfileRows(player_profiles)
            merged == merged_rows_by_key(existing_rows_by_key(f),
                                         new_rows_by_key(player_profiles))
            firsts == SelectSeq([i \in 1..Len(all) |-> i],
                                LAMBDA i : \A j \in 1..(i - 1) :
                                               RowKey(all[j]) # RowKey(all[i]))
        IN  [file |-> [exists |-> TRUE, fault |-> NoExc, header |-> fieldnames,
                       lines |-> [n \in 1..Len(firsts) |->
                                     DictWriterLine(merged[RowKey(all[firsts[n]])])]],
             exc |-> NoExc]

\* write_csv_output(filename, player_profiles): the file it leaves behind and
\* the exception it raises.  An exception while reading leaves the file as
\* it was; one raised by writerow leaves the header and the rows written
\* before it, the file having been opened with mode 'w'.
write_csv_output(f, player_profiles) ==
    IF f.exists /\ f.fault # NoExc THEN [file |-> f, exc |-> f.fault]
    ELSE
        LET merged == merged_rows_by_key(existing_rows_by_key(f),
                                         new_rows_by_key(player_profiles))
            order == sorted(DOMAIN merged)
            bad == {i \in 1..Len(order) : wrong_fields(merged[order[i]]) # {}}
            n == IF bad = {} THEN Len(order) ELSE Min(bad) - 1
        IN  [file |-> [exists |-> TRUE, fault |-> NoExc, header |-> fieldnames,
                       lines |-> [i \in 1..n |-> DictWriterLine(merged[order[i]])]],
             exc |-> IF bad = {} THEN NoExc ELSE "ValueError"]

(***************************************************************************)
(* load_historical_ratings_by_player and detect_new_months.                *)
(***************************************************************************)
required_fields == {"Date", "FIDE ID", "Player Name", "Standard", "Rapid", "Blitz"}

\* Faulty variant: except PermissionError only
caught_read_errors_permission_only == {"PermissionError"}

\* The exceptions of the except clause at line 839.
caught_read_errors == {"PermissionError", "UnicodeDecodeError"}

\* `cell or None`
OrNone(cell) == IF cell = <<>> THEN None ELSE Some(cell)

\* lines 829-835
month_record_of(row) ==
    ("Date" :> Get(row, "Date", <<>>))
    @@ ("Player Name" :> Get(row, "Player Name", <<>>))
    @@ ("Standard" :> OrNone(Get(row, "Standard", <<>>)))
    @@ ("Rapid" :> OrNone(Get(row, "Rapid", <<>>)))
    @@ ("Blitz" :> OrNone(Get(row, "Blitz", <<>>)))

\* Faulty variant: the FIDE ID cell is used as it stands, without strip().
group_by_player_unstripped(rows) ==
    LET id_of(row) == Get(row, "FIDE ID", <<>>)
        ids == {id_of(rows[i]) : i \in 1..Len(rows)} \ {<<>>}
    IN  [id \in ids |->
            LET mine == SelectSeq(rows, LAMBDA row : id_of(row) = id)
            IN  [i \in 1..Len(mine) |-> month_record_of(mine[i])]]

\* lines 817-837: the rows grouped by stripped FIDE ID, in file order,
\* rows with an empty FIDE ID left out
group_by_player(rows) ==
    LET id_of(row) == strip(Get(row, "FIDE ID", <<>>))
        ids == {id_of(rows[i]) : i \in 1..Len(rows)} \ {<<>>}
    IN  [id \in ids |->
            LET mine == SelectSeq(rows, LAMBDA row : id_of(row) = id)
            IN  [i \in 1..Len(mine) |-> month_record_of(mine[i])]]

\* load_historical_ratings_by_player(filepath): the mapping it returns and
\* the exception that reaches the caller.
load_historical_ratings_by_player(f) ==
    IF ~f.exists THEN [ret |-> <<>>, exc |-> NoExc]
    ELSE IF f.fault \in caught_read_errors THEN [ret |-> <<>>, exc |-> NoExc]
    ELSE IF f.fault # NoExc THEN [ret |-> <<>>, exc |-> f.fault]
    ELSE IF f.header = <<>> THEN [ret |-> <<>>, exc |-> NoExc]
    ELSE IF ~(required_fields \subseteq Range(f.header)) THEN [ret |-> <<>>, exc |-> NoExc]
    ELSE [ret |-> group_by_player(DictReader(f)), exc |-> NoExc]

\* Faulty variant: the months stored for any player count as stored.
stored_months_any_player(fide_id, stored_history) ==
    UNION {{Get(stored_history[id][i], "Date", <<>>) :
               i \in 1..Len(stored_history[id])} : id \in DOMAIN stored_history} \ {<<>>}

\* detect_new_months, lines 888-894
stored_months(fide_id, stored_history) ==
    IF fide_id \in DOMAIN stored_history
    THEN {Get(stored_history[fide_id][i], "Date", <<>>) :
              i \in 1..Len(stored_history[fide_id])} \ {<<>>}
    ELSE {}

\* Faulty variant: only the most recent new month is reported.
detect_new_months_latest_only(fide_id, scraped_history, stored_history) ==
    LET new_months ==
            SelectSeq(scraped_history,
                      LAMBDA r : /\ r.date # None
                                 /\ isoformat(Val(r.date))
                                        \notin stored_months(fide_id, stored_history))
    IN  SubSeq(new_months, 1, IF new_months = <<>> THEN 0 ELSE 1)

\* detect_new_months, lines 897-911
detect_new_months(fide_id, scraped_history, stored_history) ==
    SelectSeq(scraped_history,
              LAMBDA r : /\ r.date # None
                         /\ isoformat(Val(r.date)) \notin stored_months(fide_id, stored_history))

(***************************************************************************)
(* The history extractor: from the rows of the profile's rating table to   *)
(* the monthly records.  The table is given by its data rows (the rows     *)
(* after the header), a row by the text of its td cells: column 0 is the   *)
(* month label, columns 1, 3 and 5 the standard, rapid and blitz ratings.  *)
(***************************************************************************)
Upper == <<"A", "B", "C", "D", "E", "F", "G", "H", "I", "J", "K", "L", "M",
           "N", "O", "P", "Q", "R", "S", "T", "U", "V", "W", "X", "Y", "Z">>
Lower == <<"a", "b", "c", "d", "e", "f", "g", "h", "i", "j", "k", "l", "m",
           "n", "o", "p", "q", "r", "s", "t", "u", "v", "w", "x", "y", "z">>

\* str.lower()
lower(s) ==
    [i \in 1..Len(s) |->
        IF s[i] \in Range(Upper)
        THEN Lower[CHOOSE n \in 1..Len(Upper) : Upper[n] = s[i]]
        ELSE s[i]]

\* str.split('-')
RECURSIVE split(_)
split(s) ==
    IF \A i \in 1..Len(s) : s[i] # "-" THEN <<s>>
    ELSE LET i == Min({n \in 1..Len(s) : s[n] = "-"})
         IN  <<SubSeq(s, 1, i - 1)>> \o split(SubSeq(s, i + 1, Len(s)))

RECURSIVE StrToNat(_)
StrToNat(s) ==
    IF s = <<>> THEN 0
    ELSE 10 * StrToNat(SubSeq(s, 1, Len(s) - 1))
             + (CHOOSE n \in 0..9 : Digits[n + 1] = s[Len(s)])

\* int(text): None stands for ValueError.  Blanks around the number, a sign
\* and single underscores between digits are accepted, as Python does.
int(text) ==
    LET t == strip(text)
        signed == t # <<>> /\ t[1] \in {"+", "-"}
        body == IF signed THEN Tail(t) ELSE t
        valid == /\ body # <<>>
                 /\ \A i \in 1..Len(body) : body[i] \in Range(Digits) \cup {"_"}
                 /\ body[1] # "_"
                 /\ body[Len(body)] # "_"
                 /\ \A i \in 1..(Len(body) - 1) : ~(body[i] = "_" /\ body[i + 1] = "_")
        value == StrToNat(SelectSeq(body, LAMBDA c : c # "_"))
    IN  IF ~valid THEN None
        ELSE IF t[1] = "-" THEN Some(0 - value) ELSE Some(value)

\* cell.get_text(strip=True) of a cell holding one text node
get_text(cell) == strip(cell)

NotRated == <<"n", "o", "t", " ", "r", "a", "t", "e", "d">>
Unrated == <<"u", "n", "r", "a", "t", "e", "d">>

\* Faulty variant: any integer is taken as a rating.
extract_rating_any_integer(cell) ==
    LET text == get_text(cell)
    IN  IF text = <<>> \/ lower(text) \in {NotRated, Unrated, <<>>} THEN None
        ELSE int(text)

\* _extract_all_history_rows.extract_rating, lines 288-299
extract_rating(cell) ==
    LET text == get_text(cell)
        rating == int(text)
    IN  IF text = <<>> \/ lower(text) \in {NotRated, Unrated, <<>>} THEN None
        ELSE IF rating # None /\ 0 <= Val(rating) /\ Val(rating) <= 4000 THEN rating
        ELSE None

\* Faulty variant: a row whose three ratings are all None is skipped.
history_row_rated_only(cells) ==
    IF Len(cells) < 4 THEN <<>>
    ELSE IF get_text(cells[1]) = <<>> THEN <<>>
    ELSE IF Len(cells) < 6 THEN <<>>
    ELSE IF /\ extract_rating(cells[2]) = None
            /\ extract_rating(cells[4]) = None
            /\ extract_rating(cells[6]) = None
         THEN <<>>
    ELSE <<[month_year_str |-> get_text(cells[1]),
            standard |-> extract_rating(cells[2]),
            rapid |-> extract_rating(cells[4]),
            blitz |-> extract_rating(cells[6])]>>

\* Faulty variant: the ratings a row of four or five cells lacks are None.
history_row_short_rows_kept(cells) ==
    IF Len(cells) < 4 THEN <<>>
    ELSE IF get_text(cells[1]) = <<>> THEN <<>>
    ELSE <<[month_year_str |-> get_text(cells[1]),
            standard |-> extract_rating(cells[2]),
            rapid |-> extract_rating(cells[4]),
            blitz |-> IF Len(cells) < 6 THEN None ELSE extract_rating(cells[6])]>>

\* _extract_all_history_rows, lines 273-315: what one data row adds to
\* history_records.  cells[5] of a row of four or five cells raises
\* IndexError, which the except clause at line 313 turns into a skip.
history_row(cells) ==
    IF Len(cells) < 4 THEN <<>>
    ELSE IF get_text(cells[1]) = <<>> THEN <<>>
    ELSE IF Len(cells) < 6 THEN <<>>
    ELSE <<[month_year_str |-> get_text(cells[1]),
            standard |-> extract_rating(cells[2]),
            rapid |-> extract_rating(cells[4]),
            blitz |-> extract_rating(cells[6])]>>

\* _extract_all_history_rows, over the data rows of the table
RECURSIVE extract_all_history_rows(_)
extract_all_history_rows(rows) ==
    IF rows = <<>> THEN <<>>
    ELSE history_row(Head(rows)) \o extract_all_history_rows(Tail(rows))

\* _deduplicate_history_by_month, lines 349-359, as the loop with its
\* seen_months set
RECURSIVE deduplicate_from(_, _)
deduplicate_from(history_rows, seen_months) ==
    IF history_rows = <<>> THEN <<>>
    ELSE LET row == Head(history_rows)
         IN  IF row.month_year_str \notin seen_months
             THEN <<row>> \o deduplicate_from(Tail(history_rows),
                                              seen_months \cup {row.month_year_str})
             ELSE deduplicate_from(Tail(history_rows), seen_months)

\* Faulty variant: a later row of a month replaces the earlier one.
RECURSIVE deduplicate_history_by_month_keep_last(_)
deduplicate_history_by_month_keep_last(history_rows) ==
    IF history_rows = <<>> THEN <<>>
    ELSE LET row == Head(history_rows)
             rest == Tail(history_rows)
         IN  IF \E i \in 1..Len(rest) : rest[i].month_year_str = row.month_year_str
             THEN deduplicate_history_by_month_keep_last(rest)
             ELSE <<row>> \o deduplicate_history_by_month_keep_last(rest)

deduplicate_history_by_month(history_rows) == deduplicate_from(history_rows, {})

MonthAbbrs ==
    << <<"J", "a", "n">>, <<"F", "e", "b">>, <<"M", "a", "r">>, <<"A", "p", "r">>,
       <<"M", "a", "y">>, <<"J", "u", "n">>, <<"J", "u", "l">>, <<"A", "u", "g">>,
       <<"S", "e", "p">>, <<"O", "c", "t">>, <<"N", "o", "v">>, <<"D", "e", "c">> >>

\* _parse_english_month: None stands for ValueError
parse_english_month(month_abbr) ==
    IF month_abbr \in Range(MonthAbbrs)
    THEN Some(CHOOSE m \in 1..12 : MonthAbbrs[m] = month_abbr)
    ELSE None

\* Faulty variant: every fourth year is a leap year.
isleap_every_fourth_year(year) == year % 4 = 0

\* calendar.isleap
isleap(year) == year % 4 = 0 /\ (year % 100 # 0 \/ year % 400 = 0)

\* calendar.mdays
mdays == <<31, 28, 31, 30, 31, 30, 31, 31, 30, 31, 30, 31>>

\* _calculate_month_end_date: None stands for the ValueError of
\* date(year, month, day) with a year outside MINYEAR..MAXYEAR
calculate_month_end_date(year, month) ==
    LET last_day == mdays[month] + (IF month = 2 /\ isleap(year) THEN 1 ELSE 0)
    IN  IF year < 1 \/ year > 9999 THEN None
        ELSE Some([year |-> year, month |-> month, day |-> last_day])

\* _parse_month_year_string, lines 159-181
parse_month_year_string(month_year_str) ==
    LET parts == split(strip(month_year_str))
        year == int(strip(parts[1]))
        month == parse_english_month(strip(parts[2]))
    IN  IF month_year_str = <<>> THEN None
        ELSE IF Len(parts) # 2 THEN None
        ELSE IF year = None THEN None
        ELSE IF month = None THEN None
        ELSE calculate_month_end_date(Val(year), Val(month))

\* _convert_raw_history_to_records, lines 389-411, over deduplicated rows
RECURSIVE final_records_of(_)
final_records_of(deduplicated_rows) ==
    IF deduplicated_rows = <<>> THEN <<>>
    ELSE LET row == Head(deduplicated_rows)
             month_date == parse_month_year_string(row.month_year_str)
         IN  (IF month_date = None THEN <<>>
              ELSE <<[date |-> month_date, standard |-> row.standard,
                      rapid |-> row.rapid, blitz |-> row.blitz]>>)
             \o final_records_of(Tail(deduplicated_rows))

convert_raw_history_to_records(raw_rows) ==
    final_records_of(deduplicate_history_by_month(raw_rows))

\* extract_rating_history, lines 439-445
extract_rating_history(rows) ==
    convert_raw_history_to_records(extract_all_history_rows(rows))

(***************************************************************************)
(* The batch loop.                                                         *)
(***************************************************************************)
validate_fide_id(fide_id) ==
    /\ fide_id # <<>>
    /\ isdigit(fide_id)
    /\ ~(Len(fide_id) < 4 \/ Len(fide_id) > 10)

\* What requests.get meets: a transport error, or a response with a status
\* code and, for 200, a page.  A page is given by what extract_player_name
\* and extract_rating_history return for it.
NoPage == [player_name |-> None, rating_history |-> <<>>]

Reply(error, status_code, page) ==
    [error |-> error, status_code |-> status_code, page |-> page]

\* Faulty variant: None for every HTTP error status.
fetch_fide_profile_none_on_http_error(reply) ==
    IF reply.error = "ConnectionError" THEN [ret |-> None, exc |-> "ConnectionError"]
    ELSE IF reply.error = "Timeout" THEN [ret |-> None, exc |-> "Timeout"]
    ELSE IF reply.error # NoExc THEN [ret |-> None, exc |-> reply.error]
    ELSE IF reply.status_code >= 400 THEN [ret |-> None, exc |-> NoExc]
    ELSE [ret |-> Some(reply.page), exc |-> NoExc]

\* fetch_fide_profile, lines 215-226: the html it returns (None for 404) and
\* the exception it raises
fetch_fide_profile(reply) ==
    IF reply.error = "ConnectionError" THEN [ret |-> None, exc |-> "ConnectionError"]
    ELSE IF reply.error = "Timeout" THEN [ret |-> None, exc |-> "Timeout"]
    ELSE IF reply.error # NoExc THEN [ret |-> None, exc |-> reply.error]
    ELSE IF reply.status_code >= 400
         THEN IF reply.status_code = 404 THEN [ret |-> None, exc |-> NoExc]
              ELSE [ret |-> None, exc |-> "HTTPError"]
    ELSE [ret |-> Some(reply.page), exc |-> NoExc]

Error(kind, fide_id) == [kind |-> kind, fide_id |-> fide_id]

\* process_batch, lines 1082-1102
result_of(fide_id, player_name, rating_history, new_months) ==
    LET rated == rating_history # <<>>
    IN  [fide_id |-> fide_id,
         player_name |-> player_name,
         standard |-> IF rated THEN rating_history[1].standard ELSE None,
         rapid |-> IF rated THEN rating_history[1].rapid ELSE None,
         blitz |-> IF rated THEN rating_history[1].blitz ELSE None,
         rating_history |-> rating_history,
         new_months |-> new_months]

\* Faulty variant: no `except Exception` clause after the three named ones.
handle_exception_named_only(e, fide_id) ==
    IF e = "ConnectionError"
    THEN [errors |-> <<Error("Network error", fide_id)>>, exc |-> NoExc]
    ELSE IF e = "Timeout"
    THEN [errors |-> <<Error("Request timeout", fide_id)>>, exc |-> NoExc]
    ELSE IF e = "HTTPError"
    THEN [errors |-> <<Error("HTTP error", fide_id)>>, exc |-> NoExc]
    ELSE [errors |-> <<>>, exc |-> e]

\* Faulty variant: `except requests.Timeout: continue`, nothing appended.
handle_exception_silent_timeout(e, fide_id) ==
    IF e = "ConnectionError"
    THEN [errors |-> <<Error("Network error", fide_id)>>, exc |-> NoExc]
    ELSE IF e = "Timeout"
    THEN [errors |-> <<>>, exc |-> NoExc]
    ELSE IF e = "HTTPError"
    THEN [errors |-> <<Error("HTTP error", fide_id)>>, exc |-> NoExc]
    ELSE [errors |-> <<Error("Unexpected error", fide_id)>>, exc |-> NoExc]

\* process_batch, lines 1104-1115: the except clauses, as the entry appended
\* to errors and the exception that leaves the loop uncaught
handle_exception(e, fide_id) ==
    IF e = "ConnectionError"
    THEN [errors |-> <<Error("Network error", fide_id)>>, exc |-> NoExc]
    ELSE IF e = "Timeout"
    THEN [errors |-> <<Error("Request timeout", fide_id)>>, exc |-> NoExc]
    ELSE IF e = "HTTPError"
    THEN [errors |-> <<Error("HTTP error", fide_id)>>, exc |-> NoExc]
    ELSE [errors |-> <<Error("Unexpected error", fide_id)>>, exc |-> NoExc]

\* Faulty variant: a page without a rating history is a failure, named or not.
extraction_failed_without_history(rating_history, player_name) ==
    rating_history = <<>>

\* process_batch, line 1075: `if not rating_history and not player_name`
extraction_failed(rating_history, player_name) ==
    rating_history = <<>> /\ player_name = <<>>

\* process_batch, lines 1055-1115: one pass of the loop body, as the entries
\* it appends to results and to errors, the calls of fetch_fide_profile it
\* makes and the exception that escapes it
process_fide_id(fide_id, reply, historical_data) ==
    IF ~validate_fide_id(fide_id)
    THEN [results |-> <<>>, errors |-> <<Error("Invalid FIDE ID format", fide_id)>>,
          fetches |-> <<>>, exc |-> NoExc]
    ELSE
        LET fetched == fetch_fide_profile(reply)
            html == Val(fetched.ret)
            player_name == IF html.player_name = None THEN <<>>
                           ELSE Val(html.player_name)
            rating_history == html.rating_history
        IN  IF fetched.exc # NoExc
            THEN [results |-> <<>>,
                  errors |-> handle_exception(fetched.exc, fide_id).errors,
                  fetches |-> <<fide_id>>,
                  exc |-> handle_exception(fetched.exc, fide_id).exc]
            ELSE IF fetched.ret = None
            THEN [results |-> <<>>, errors |-> <<Error("Player not found", fide_id)>>,
                  fetches |-> <<fide_id>>, exc |-> NoExc]
            ELSE IF extraction_failed(rating_history, player_name)
            THEN [results |-> <<>>, errors |-> <<Error("Unable to extract data", fide_id)>>,
                  fetches |-> <<fide_id>>, exc |-> NoExc]
            ELSE [results |-> <<result_of(fide_id, player_name, rating_history,
                                          detect_new_months(fide_id, rating_history,
                                                            historical_data))>>,
                  errors |-> <<>>, fetches |-> <<fide_id>>, exc |-> NoExc]

\* Faulty variant: an entry is appended unless the list has one for the same
\* identifier.
appended_unless_present(list, entries) ==
    IF entries # <<>> /\ \E i \in 1..Len(list) : list[i].fide_id = entries[1].fide_id
    THEN list
    ELSE list \o entries

\* Faulty variant: list.insert(0, entry)
appended_in_front(list, entries) == entries \o list

\* list.append of the entry a pass produces, if any (lines 1057, 1065, 1076,
\* 1093, 1105-1114)
appended(list, entries) == list \o entries

\* Faulty variant: the for loop is left after its first pass.
loop_exhausted_after_first(ids, position) == position > 1

\* `for fide_id in fide_ids` has no identifier left (lines 1054, 1117)
loop_exhausted(ids, position) == position > Len(ids)

(***************************************************************************)
(* email_notifier.send_batch_notifications, ratings_api.                   *)
(* send_batch_api_updates and main's exit status.                          *)
(***************************************************************************)
\* Faulty variant: the address is not looked at.
email_due_any_address(result, player_data) ==
    /\ result.new_months # <<>>
    /\ result.fide_id \in DOMAIN player_data

\* send_batch_notifications, lines 275-288: the result is not skipped
email_due(result, player_data) ==
    /\ result.new_months # <<>>
    /\ result.fide_id \in DOMAIN player_data
    /\ strip(Get(player_data[result.fide_id], "email", <<>>)) # <<>>

\* What the try block of lines 290-314 comes to: _send_email_notification
\* returns True, it returns False, or an exception is raised.
EmailOutcomes == {"sent", "not sent", "raised"}

\* send_batch_notifications, lines 269-314: the loop from results[i] on;
\* outcome[i] is what the try block comes to for results[i]
RECURSIVE notify_from(_, _, _, _, _)
notify_from(results, player_data, outcome, i, counted) ==
    IF i > Len(results) THEN counted
    ELSE IF ~email_due(results[i], player_data)
    THEN notify_from(results, player_data, outcome, i + 1, counted)
    ELSE notify_from(results, player_data, outcome, i + 1,
            [sent_count |-> IF outcome[i] = "sent" THEN counted.sent_count + 1
                            ELSE counted.sent_count,
             failed_count |-> IF outcome[i] = "sent" THEN counted.failed_count
                              ELSE counted.failed_count + 1,
             attempts |-> Append(counted.attempts,
                 [position |-> i,
                  fide_id |-> results[i].fide_id,
                  player_email |-> strip(Get(player_data[results[i].fide_id],
                                             "email", <<>>)),
                  outcome |-> outcome[i]])])

\* send_batch_notifications(results, player_data), lines 266-316: the two
\* counts it returns and the emails it tried to send
send_batch_notifications(results, player_data, outcome) ==
    notify_from(results, player_data, outcome, 1,
                [sent_count |-> 0, failed_count |-> 0, attempts |-> <<>>])

\* What requests.post meets: an exception, or a response with a status
ApiReply(error, status_code) == [error |-> error, status_code |-> status_code]

\* Faulty variant: a 4xx response is retried like a 5xx one.
post_attempt_retry_client_errors(reply, attempt, max_retries) ==
    IF reply.error = NoExc
    THEN IF reply.status_code = 200 THEN Some(TRUE)
         ELSE IF attempt < max_retries /\ reply.status_code >= 400 THEN None
         ELSE Some(FALSE)
    ELSE IF reply.error \in {"Timeout", "ConnectionError"}
    THEN IF attempt < max_retries THEN None ELSE Some(FALSE)
    ELSE Some(FALSE)

\* _post_rating_to_api, lines 100-148: one pass of the while loop, as the
\* value returned, None when the pass ends with `attempt += 1; continue`
post_attempt(reply, attempt, max_retries) ==
    IF reply.error = NoExc
    THEN IF reply.status_code = 200 THEN Some(TRUE)
         ELSE IF reply.status_code >= 400 /\ reply.status_code < 500 THEN Some(FALSE)
         ELSE IF attempt < max_retries /\ reply.status_code >= 500 THEN None
         ELSE Some(FALSE)
    ELSE IF reply.error \in {"Timeout", "ConnectionError"}
    THEN IF attempt < max_retries THEN None ELSE Some(FALSE)
    ELSE Some(FALSE)

\* _post_rating_to_api, lines 98-150, from the given attempt on; replies are
\* what the POSTs still to be made will meet
RECURSIVE post_from(_, _, _)
post_from(replies, attempt, max_retries) ==
    IF attempt > max_retries \/ replies = <<>> THEN FALSE
    ELSE LET done == post_attempt(Head(replies), attempt, max_retries)
         IN  IF done = None THEN post_from(Tail(replies), attempt + 1, max_retries)
             ELSE Val(done)

\* _post_rating_to_api(profile, api_endpoint, api_token, timeout, max_retries)
post_rating_to_api(replies, max_retries) == post_from(replies, 0, max_retries)

\* send_batch_api_updates, lines 182-201: the months posted, in order, from
\* results[i] on
RECURSIVE months_from(_, _)
months_from(results, i) ==
    IF i > Len(results) THEN <<>>
    ELSE [j \in 1..Len(results[i].new_months) |->
             [position |-> i,
              fide_id |-> results[i].fide_id,
              month_record |-> results[i].new_months[j]]]
         \o months_from(results, i + 1)

\* send_batch_api_updates(results), lines 153-221: the two counts it returns
\* and the months it posted; replies[k] is what the POSTs of the k-th month
\* meet, max_retries being left at its default of 1
send_batch_api_updates(results, api_config, replies) ==
    IF api_config = None THEN [posted_count |-> 0, failed_count |-> 0, posts |-> <<>>]
    ELSE
        LET months == months_from(results, 1)
            success == [k \in 1..Len(months) |-> post_rating_to_api(replies[k], 1)]
        IN  [posted_count |-> Cardinality({k \in 1..Len(months) : success[k]}),
             failed_count |-> Cardinality({k \in 1..Len(months) : ~success[k]}),
             posts |-> [k \in 1..Len(months) |->
                           [position |-> months[k].position,
                            fide_id |-> months[k].fide_id,
                            month_record |-> months[k].month_record,
                            success |-> success[k]]]]

\* Faulty variant: a run that got to its end exits with status 0.
exit_code_zero_at_the_end(e, success_count) ==
    IF e = NoExc THEN 0
    ELSE IF e \in {"FileNotFoundError", "ValueError", "UnicodeDecodeError",
                   "PermissionError"}
    THEN 2
    ELSE 1

\* main, lines 1212-1229: the status handed to sys.exit; UnicodeDecodeError
\* is a ValueError
exit_code(e, success_count) ==
    IF e = NoExc THEN IF success_count > 0 THEN 0 ELSE 1
    ELSE IF e \in {"FileNotFoundError", "ValueError", "UnicodeDecodeError",
                   "PermissionError"}
    THEN 2
    ELSE 1

(***************************************************************************)
(* Inputs of the model.                                                    *)
(***************************************************************************)
\* FIDE IDs: "12345" sorts before "2222" as a str and after it as a number;
\* "99" is too short to be valid.
Id12345 == <<"1", "2", "3", "4", "5">>
Id2222 == <<"2", "2", "2", "2">>
Id99 == <<"9", "9">>
FideIds == {Id12345, Id2222, Id99}

SeqsUpTo(S, n) == UNION {[1..k -> S] : k \in 0..n}

\* The lists of FIDE IDs a run processes.
Rosters == SeqsUpTo(FideIds, MaxBatch) \ {<<>>}

\* Identifiers at and around the limits validate_fide_id sets.
IdEmpty == <<>>
Id123 == <<"1", "2", "3">>
Id1234567890 == <<"1", "2", "3", "4", "5", "6", "7", "8", "9", "0">>
Id12345678901 == Id1234567890 \o <<"1">>
IdLetter == <<"1", "2", "x", "4">>
IdBlank == <<" ", "1", "2", "3", "4">>
IdSuperscript == <<SuperscriptTwo, SuperscriptTwo, SuperscriptTwo, SuperscriptTwo>>

ValidationIds ==
    {IdEmpty, Id123, Id2222, Id1234567890, Id12345678901, IdLetter, IdBlank,
     IdSuperscript}

\* One of them alone, or followed by a valid identifier.
ValidationRosters ==
    {<<fide_id>> : fide_id \in ValidationIds}
    \cup {<<fide_id, Id12345>> : fide_id \in ValidationIds}

\* One or two valid FIDE IDs, the same one twice included.
ShortRosters == SeqsUpTo({Id12345, Id2222}, 2) \ {<<>>}

Oct2025 == [year |-> 2025, month |-> 10, day |-> 31]
Nov2025 == [year |-> 2025, month |-> 11, day |-> 30]

Month(d, standard, rapid, blitz) ==
    [date |-> Some(d), standard |-> standard, rapid |-> rapid, blitz |-> blitz]

\* Rows of a rating table: the label, the three ratings and, between them,
\* cells the extractor does not read.
TableRow(label, standard, rapid, blitz) ==
    <<label, standard, <<"0">>, rapid, <<"0">>, blitz, <<"0">>>>

Label(year, month) == IntToStr(year) \o <<"-">> \o MonthAbbrs[month]

NotRatedCell == <<"N", "o", "t", " ", "r", "a", "t", "e", "d">>
NotRatedCapitals == <<" ", "N", "O", "T", " ", "R", "A", "T", "E", "D", " ">>

NovRow == TableRow(Label(2025, 11), IntToStr(2450), <<>>, IntToStr(0))
OctRow == TableRow(Label(2025, 10), IntToStr(2440), NotRatedCell, <<>>)
\* October again, under a label that is another string
OctRevisedRow ==
    TableRow(<<"0">> \o Label(2025, 10), IntToStr(2445), IntToStr(1900), NotRatedCapitals)
\* October again, under the same label
OctAgainRow == TableRow(Label(2025, 10), IntToStr(2445), IntToStr(1900), <<>>)
\* A month without any rating
UnratedRow == TableRow(Label(2024, 2), <<>>, NotRatedCell, NotRatedCapitals)
\* A label in another format
SlashRow ==
    TableRow(<<"O", "c", "t", "/", "2", "0", "2", "5">>, IntToStr(2440), <<>>, <<>>)
\* A row of four cells
ShortRow == <<Label(2025, 11), IntToStr(2450), <<"0">>, IntToStr(1884)>>
\* November with blanks in its label and with cells that are no ratings
WildRow ==
    TableRow(<<"2", "0", "2", "5", " ", "-", " ", "N", "o", "v">>,
             IntToStr(4001), <<"a", "b", "c">>, <<"-", "5">>)

\* December 2023 with the ratings at the two ends of the range and just
\* below it
BoundaryRow == TableRow(Label(2023, 12), IntToStr(4000), IntToStr(0), <<"-", "1">>)
\* Rows of three and of five cells, and a row whose label cell is blank
ThreeCellRow == <<Label(2025, 11), IntToStr(2450), <<"0">>>>
FiveCellRow == <<Label(2025, 11), IntToStr(2450), <<"0">>, IntToStr(1884), <<"0">>>>
BlankLabelRow == TableRow(<<" ">>, IntToStr(2450), <<>>, <<>>)

TableRows ==
    {NovRow, OctRow, OctRevisedRow, OctAgainRow, UnratedRow, SlashRow, ShortRow, WildRow,
     BoundaryRow, ThreeCellRow, FiveCellRow, BlankLabelRow}

\* Years whose months are parsed: the first and the last year of
\* datetime.date, century years that are and are not leap years, and
\* ordinary ones.
CalendarYears == {1, 1900, 2000, 2023, 2024, 2025, 2100, 9999}

\* Rating tables: any rows up to the bound, and one row for every month of
\* every calendar year.
Tables ==
    SeqsUpTo(TableRows, MaxTableRows)
    \cup {<<TableRow(Label(year, month), IntToStr(1500), <<>>, <<>>)>> :
             year \in CalendarYears, month \in 1..12}

\* The records the extractor gives for the rows above.  Under their two
\* labels both October rows survive, so a history of OctRow and
\* OctRevisedRow has two records of one date.
NovRecord == extract_rating_history(<<NovRow>>)[1]
OctRecord == extract_rating_history(<<OctRow>>)[1]
OctRevised == extract_rating_history(<<OctRevisedRow>>)[1]

Page(player_name, rating_history) ==
    [player_name |-> player_name, rating_history |-> rating_history]

\* Profile pages: an unrecognised page, a name without a table, two months,
\* a revised October under another name, and a nameless page whose table
\* gives October twice.
Pages ==
    { NoPage,
      Page(Some(<<"A">>), <<>>),
      Page(Some(<<"A">>), <<NovRecord, OctRecord>>),
      Page(Some(<<"B">>), <<OctRevised>>),
      Page(None, <<OctRecord, OctRevised>>) }

Replies ==
    {Reply(NoExc, 200, p) : p \in Pages}
    \cup {Reply(NoExc, 404, NoPage), Reply(NoExc, 403, NoPage), Reply(NoExc, 500, NoPage)}
    \cup {Reply(e, 0, NoPage) : e \in {"ConnectionError", "Timeout", "TooManyRedirects"}}

\* Data lines a ledger file may hold when a run starts.
Line(d, fide_id, player_name, standard, rapid, blitz) ==
    <<isoformat(d), fide_id, player_name, standard, rapid, blitz>>

StoredLines ==
    { Line(Oct2025, Id12345, <<"O">>, IntToStr(2440), <<>>, <<>>),
      Line(Oct2025, Id12345, <<"A">>, IntToStr(2400), IntToStr(1900), <<>>),
      Line(Nov2025, Id2222, <<"B">>, <<>>, <<>>, IntToStr(0)),
      Line(Oct2025, Id2222 \o <<" ">>, <<>>, IntToStr(2445), <<>>, <<>>) }

File(fault, header, lines) ==
    [exists |-> TRUE, fault |-> fault, header |-> header, lines |-> lines]

\* Ledgers with the six columns, rows in any order, a key possibly repeated.
ReadableLedgers ==
    {AbsentFile} \cup {File(NoExc, fieldnames, ls) : ls \in SeqsUpTo(StoredLines, MaxLedgerRows)}

\* No ledger yet, a header alone, or a single row.
SmallLedgers ==
    {AbsentFile} \cup {File(NoExc, fieldnames, ls) : ls \in SeqsUpTo(StoredLines, 1)}

(***************************************************************************)
(* One run: main() from the call of process_batch to sys.exit.             *)
(***************************************************************************)
VARIABLES
    ledger,           \* the file OUTPUT_FILENAME
    fide_ids,         \* the list handed to process_batch
    pc,               \* "load", "loop", "written", "notified", "posted",
                      \* "failed" or "exited"
    historical_data,  \* process_batch's historical_data
    idx,              \* position of the for loop in fide_ids
    results,          \* process_batch's results
    errors,           \* process_batch's errors
    fetch_log,        \* the calls of fetch_fide_profile made and what they met
    calls,            \* the calls that read or write the ledger file and the
                      \* calls of the two notification collaborators, in order
    exc,              \* the exception that reached main()
    table,            \* the data rows of a profile's rating table
    raw_history,      \* what _extract_all_history_rows returns for it
    deduplicated,     \* _convert_raw_history_to_records' deduplicated
    final_records,    \* _convert_raw_history_to_records' final_records
    player_data,      \* main's player_data: FIDE ID -> {"email": ...}
    api_config,       \* what _load_api_config returns
    email_sent,       \* main's email_sent
    email_failed,     \* main's email_failed
    mail_log,         \* the emails send_batch_notifications tried to send
    api_posted,       \* main's api_posted
    api_failed,       \* main's api_failed
    post_log,         \* the months send_batch_api_updates posted
    exit_status,      \* the argument of sys.exit, None while main runs
    max_retries,      \* _post_rating_to_api's max_retries
    api_replies,      \* what its POSTs meet, in order
    attempt,          \* its attempt
    post_count,       \* the POSTs it has made
    returned          \* the value it returned, None while it runs

extraction == <<table, raw_history, deduplicated, final_records>>

delivery == <<player_data, api_config, email_sent, email_failed, mail_log,
              api_posted, api_failed, post_log>>

posting == <<max_retries, api_replies, attempt, post_count, returned>>

vars == <<ledger, fide_ids, pc, historical_data, idx, results, errors, fetch_log,
          calls, exc, extraction, delivery, posting, exit_status>>

InitRun ==
    /\ pc = "load"
    /\ historical_data = <<>>
    /\ idx = 1
    /\ results = <<>>
    /\ errors = <<>>
    /\ fetch_log = <<>>
    /\ calls = <<>>
    /\ exc = NoExc
    /\ table = <<>>
    /\ raw_history = <<>>
    /\ deduplicated = <<>>
    /\ final_records = <<>>
    /\ email_sent = 0
    /\ email_failed = 0
    /\ mail_log = <<>>
    /\ api_posted = 0
    /\ api_failed = 0
    /\ post_log = <<>>
    /\ exit_status = None
    /\ max_retries = 1
    /\ api_replies = <<>>
    /\ attempt = 0
    /\ post_count = 0
    /\ returned = None

\* No player has an email address and the ratings API is not configured.
NoDelivery ==
    /\ player_data = [fide_id \in Range(fide_ids) |-> ("email" :> <<>>)]
    /\ api_config = None

\* Any batch against a small ledger.
Init == ledger \in SmallLedgers /\ fide_ids \in Rosters /\ NoDelivery /\ InitRun

\* process_batch, lines 1047-1052
LoadHistoricalData ==
    /\ pc = "load"
    /\ LET loaded == load_historical_ratings_by_player(ledger)
       IN  /\ historical_data' = loaded.ret
           /\ exc' = loaded.exc
           /\ pc' = IF loaded.exc = NoExc THEN "loop" ELSE "failed"
    /\ calls' = Append(calls, "load_historical_ratings_by_player")
    /\ UNCHANGED <<ledger, fide_ids, idx, results, errors, fetch_log, extraction,
                   delivery, posting, exit_status>>

\* process_batch, lines 1054-1115: one pass of the loop
ProcessFideId ==
    /\ pc = "loop"
    /\ idx <= Len(fide_ids)
    /\ \E reply \in Replies :
          LET out == process_fide_id(fide_ids[idx], reply, historical_data)
          IN  /\ results' = appended(results, out.results)
              /\ errors' = appended(errors, out.errors)
              /\ fetch_log' = fetch_log \o
                     [i \in 1..Len(out.fetches) |->
                         [position |-> idx, fide_id |-> out.fetches[i], reply |-> reply]]
              /\ exc' = out.exc
              /\ pc' = IF out.exc = NoExc THEN "loop" ELSE "failed"
    /\ idx' = idx + 1
    /\ UNCHANGED <<ledger, fide_ids, historical_data, calls, extraction, delivery,
                   posting, exit_status>>

\* main, lines 1176-1179: process_batch returns and the results are written
WriteCsvOutput ==
    /\ pc = "loop"
    /\ loop_exhausted(fide_ids, idx)
    /\ LET written == write_csv_output(ledger, results)
       IN  /\ ledger' = written.file
           /\ exc' = written.exc
           /\ pc' = IF written.exc = NoExc THEN "written" ELSE "failed"
    /\ calls' = Append(calls, "write_csv_output")
    /\ UNCHANGED <<fide_ids, historical_data, idx, results, errors, fetch_log,
                   extraction, delivery, posting, exit_status>>

\* Scripts for the POSTs of one month: accepted at once, accepted on the
\* retry, refused, and timed out twice.
ApiScripts ==
    { <<ApiReply(NoExc, 200), ApiReply(NoExc, 200)>>,
      <<ApiReply(NoExc, 503), ApiReply(NoExc, 200)>>,
      <<ApiReply(NoExc, 404), ApiReply(NoExc, 200)>>,
      <<ApiReply("Timeout", 0), ApiReply("Timeout", 0)>> }

\* main, line 1184: send_batch_notifications(results, player_data); the
\* ledger file is not among what it touches.
SendBatchNotifications ==
    /\ pc = "written"
    /\ \E outcome \in [1..Len(results) -> EmailOutcomes \cup {"skipped"}] :
          /\ \A i \in 1..Len(results) :
                 outcome[i] = "skipped" <=> ~email_due(results[i], player_data)
          /\ LET sent == send_batch_notifications(results, player_data, outcome)
             IN  /\ email_sent' = sent.sent_count
                 /\ email_failed' = sent.failed_count
                 /\ mail_log' = sent.attempts
    /\ pc' = "notified"
    /\ calls' = Append(calls, "send_batch_notifications")
    /\ UNCHANGED <<ledger, fide_ids, historical_data, idx, results, errors,
                   fetch_log, exc, extraction, player_data, api_config,
                   api_posted, api_failed, post_log, posting, exit_status>>

\* main, line 1189: send_batch_api_updates(results); the ledger file is not
\* among what it touches.
SendBatchApiUpdates ==
    /\ pc = "notified"
    /\ \E replies \in [1..(IF api_config = None THEN 0
                            ELSE Len(months_from(results, 1))) -> ApiScripts] :
          LET posted == send_batch_api_updates(results, api_config, replies)
          IN  /\ api_posted' = posted.posted_count
              /\ api_failed' = posted.failed_count
              /\ post_log' = posted.posts
    /\ pc' = "posted"
    /\ calls' = Append(calls, "send_batch_api_updates")
    /\ UNCHANGED <<ledger, fide_ids, historical_data, idx, results, errors,
                   fetch_log, exc, extraction, player_data, api_config,
                   email_sent, email_failed, mail_log, posting, exit_status>>

\* main, lines 1212-1229: sys.exit at the end of the run, or in the except
\* clause that catches what process_batch or write_csv_output raised
Exit ==
    /\ pc \in {"posted", "failed"}
    /\ exit_status' = Some(exit_code(exc, Len(results)))
    /\ pc' = "exited"
    /\ UNCHANGED <<ledger, fide_ids, historical_data, idx, results, errors,
                   fetch_log, calls, exc, extraction, delivery, posting>>

Next ==
    \/ LoadHistoricalData
    \/ ProcessFideId
    \/ WriteCsvOutput
    \/ SendBatchNotifications
    \/ SendBatchApiUpdates
    \/ Exit

Spec == Init /\ [][Next]_vars

\* A short batch of valid identifiers against any readable ledger.
InitLedger ==
    ledger \in ReadableLedgers /\ fide_ids \in ShortRosters /\ NoDelivery /\ InitRun

SpecLedger == InitLedger /\ [][Next]_vars

\* process_batch over identifiers at the limits of validate_fide_id, there
\* being no ledger yet.
InitValidate ==
    ledger = AbsentFile /\ fide_ids \in ValidationRosters /\ NoDelivery /\ InitRun

SpecValidate == InitValidate /\ [][Next]_vars

(***************************************************************************)
(* Runs that start with a ledger file that cannot be used as it is.        *)
(***************************************************************************)
ShortLine == <<isoformat(Oct2025), Id12345, <<"O">>, IntToStr(2440)>>
LongLine == Line(Nov2025, Id2222, <<"B">>, <<>>, <<>>, IntToStr(0)) \o <<<<"x">>>>

UnusableLedgers ==
    { AbsentFile,
      File(NoExc, <<>>, <<>>),
      File(NoExc, <<"Date", "FIDE ID", "Player Name", "Standard">>, <<ShortLine>>),
      File(NoExc, <<"Date", "ID", "Name", "Standard">>, <<ShortLine>>),
      File(NoExc, fieldnames \o <<"Title">>, <<LongLine>>) }
    \cup {File(e, fieldnames, ls) :
            e \in {"PermissionError", "UnicodeDecodeError"},
            ls \in SeqsUpTo(StoredLines, 1)}

InitUnusable ==
    ledger \in UnusableLedgers /\ fide_ids \in Rosters /\ NoDelivery /\ InitRun

SpecUnusable == InitUnusable /\ [][Next]_vars

(***************************************************************************)
(* Runs of main in which every player has an email address and the ratings *)
(* API is configured.  The roster is the keys of player_data, so no        *)
(* identifier is repeated.                                                 *)
(***************************************************************************)
MainRosters == {<<Id12345>>, <<Id2222>>, <<Id12345, Id2222>>, <<Id2222, Id12345>>}

InitDelivery ==
    /\ ledger \in SmallLedgers
    /\ fide_ids \in MainRosters
    /\ player_data = [fide_id \in Range(fide_ids) |-> ("email" :> <<"x">>)]
    /\ api_config = Some([endpoint |-> <<"x">>, token |-> <<"x">>])
    /\ InitRun

SpecDelivery == InitDelivery /\ [][Next]_vars

(***************************************************************************)
(* send_batch_notifications on its own.  pc is "written" before the call   *)
(* and "notified" after it.                                                *)
(***************************************************************************)
NotifyResults ==
    { result_of(Id12345, <<"A">>, <<NovRecord, OctRecord>>, <<NovRecord>>),
      result_of(Id12345, <<"A">>, <<NovRecord, OctRecord>>, <<>>),
      result_of(Id2222, <<"B">>, <<OctRevised>>, <<OctRevised>>),
      result_of(Id99, <<>>, <<OctRecord>>, <<OctRecord>>) }

\* Entries of player_data: an address, no address, a blank one, and an
\* entry without the key 'email'
PlayerEntries ==
    {("email" :> <<"x">>), ("email" :> <<>>), ("email" :> <<" ">>), ("name" :> <<"A">>)}

PlayerData == UNION {[S -> PlayerEntries] : S \in SUBSET {Id12345, Id2222}}

InitNotify ==
    /\ results \in SeqsUpTo(NotifyResults, 2)
    /\ player_data \in PlayerData
    /\ api_config = None
    /\ pc = "written"
    /\ ledger = AbsentFile
    /\ fide_ids = <<>>
    /\ historical_data = <<>>
    /\ idx = 1
    /\ errors = <<>>
    /\ fetch_log = <<>>
    /\ calls = <<>>
    /\ exc = NoExc
    /\ table = <<>>
    /\ raw_history = <<>>
    /\ deduplicated = <<>>
    /\ final_records = <<>>
    /\ email_sent = 0
    /\ email_failed = 0
    /\ mail_log = <<>>
    /\ api_posted = 0
    /\ api_failed = 0
    /\ post_log = <<>>
    /\ exit_status = None
    /\ max_retries = 1
    /\ api_replies = <<>>
    /\ attempt = 0
    /\ post_count = 0
    /\ returned = None

NextNotify == SendBatchNotifications

SpecNotify == InitNotify /\ [][NextNotify]_vars

(***************************************************************************)
(* _post_rating_to_api on its own, one step for each pass of its while     *)
(* loop.  pc is "post" while it runs and "returned" after it.              *)
(***************************************************************************)
ApiReplies ==
    {ApiReply(NoExc, status_code) : status_code \in {200, 302, 404, 500}}
    \cup {ApiReply(e, 0) : e \in {"Timeout", "ConnectionError", "TooManyRedirects"}}

InitPost ==
    /\ max_retries \in (-1)..MaxRetries
    /\ api_replies \in [1..(max_retries + 1) -> ApiReplies]
    /\ attempt = 0
    /\ post_count = 0
    /\ returned = None
    /\ pc = "post"
    /\ ledger = AbsentFile
    /\ fide_ids = <<>>
    /\ historical_data = <<>>
    /\ idx = 1
    /\ results = <<>>
    /\ errors = <<>>
    /\ fetch_log = <<>>
    /\ calls = <<>>
    /\ exc = NoExc
    /\ table = <<>>
    /\ raw_history = <<>>
    /\ deduplicated = <<>>
    /\ final_records = <<>>
    /\ NoDelivery
    /\ email_sent = 0
    /\ email_failed = 0
    /\ mail_log = <<>>
    /\ api_posted = 0
    /\ api_failed = 0
    /\ post_log = <<>>
    /\ exit_status = None

\* _post_rating_to_api, lines 99-150: the test of the while loop and, if it
\* holds, one pass, whose POST meets the next reply
PostRatingToApi ==
    /\ pc = "post"
    /\ IF attempt > max_retries
       THEN /\ returned' = Some(FALSE)
            /\ pc' = "returned"
            /\ UNCHANGED <<attempt, post_count>>
       ELSE LET done == post_attempt(api_replies[post_count + 1], attempt, max_retries)
            IN  /\ post_count' = post_count + 1
                /\ attempt' = IF done = None THEN attempt + 1 ELSE attempt
                /\ returned' = done
                /\ pc' = IF done = None THEN "post" ELSE "returned"
    /\ UNCHANGED <<ledger, fide_ids, historical_data, idx, results, errors, fetch_log,
                   calls, exc, extraction, delivery, exit_status, max_retries,
                   api_replies>>

NextPost == PostRatingToApi

\* The loop is not suspended for ever: a call that can take a step takes it.
SpecPost == InitPost /\ [][NextPost]_vars /\ WF_vars(NextPost)

(***************************************************************************)
(* extract_rating_history on its own: from a rating table to the monthly   *)
(* records, one step for each stage of the pipeline.  pc is "html", "raw", *)
(* "deduplicated" or "final".                                              *)
(***************************************************************************)
InitExtract ==
    /\ table \in Tables
    /\ pc = "html"
    /\ raw_history = <<>>
    /\ deduplicated = <<>>
    /\ final_records = <<>>
    /\ ledger = AbsentFile
    /\ fide_ids = <<>>
    /\ historical_data = <<>>
    /\ idx = 1
    /\ results = <<>>
    /\ errors = <<>>
    /\ fetch_log = <<>>
    /\ calls = <<>>
    /\ exc = NoExc
    /\ NoDelivery
    /\ email_sent = 0
    /\ email_failed = 0
    /\ mail_log = <<>>
    /\ api_posted = 0
    /\ api_failed = 0
    /\ post_log = <<>>
    /\ exit_status = None
    /\ max_retries = 1
    /\ api_replies = <<>>
    /\ attempt = 0
    /\ post_count = 0
    /\ returned = None

run == <<ledger, fide_ids, historical_data, idx, results, errors, fetch_log, calls, exc,
         delivery, posting, exit_status>>

\* extract_rating_history, line 440
ExtractAllHistoryRows ==
    /\ pc = "html"
    /\ raw_history' = extract_all_history_rows(table)
    /\ pc' = "raw"
    /\ UNCHANGED <<table, deduplicated, final_records, run>>

\* _convert_raw_history_to_records, line 386
DeduplicateHistoryByMonth ==
    /\ pc = "raw"
    /\ deduplicated' = deduplicate_history_by_month(raw_history)
    /\ pc' = "deduplicated"
    /\ UNCHANGED <<table, raw_history, final_records, run>>

\* _convert_raw_history_to_records, lines 389-411
ConvertToRecords ==
    /\ pc = "deduplicated"
    /\ final_records' = final_records_of(deduplicated)
    /\ pc' = "final"
    /\ UNCHANGED <<table, raw_history, deduplicated, run>>

NextExtract == ExtractAllHistoryRows \/ DeduplicateHistoryByMonth \/ ConvertToRecords

SpecExtract == InitExtract /\ [][NextExtract]_vars

(***************************************************************************)
(* Properties.  In a six-column file a data line is                        *)
(* <<Date, FIDE ID, Player Name, Standard, Rapid, Blitz>>, so line[2] and  *)
(* line[1] make its (FIDE ID, Date) key.  While pc = "loop" the ledger is  *)
(* still the file the run started with; at pc = "written" it is the file   *)
(* write_csv_output(ledger, results) has left.                             *)
(***************************************************************************)

C2_NothingNewTwice ==
    pc = "written" =>
        \A i \in 1..Len(results) :
            detect_new_months(results[i].fide_id, results[i].rating_history,
                              load_historical_ratings_by_player(ledger).ret) = <<>>

\* A merged result that had reported two new months.
C2_Witness ==
    /\ pc = "written"
    /\ \E i \in 1..Len(results) : Len(results[i].new_months) = 2

\* C3: the new months of a result are exactly the records of its extracted
\* history whose ISO date is not the Date of a ledger row of that FIDE ID,
\* in the order of the history; the ratings of the rows play no part.
C3_NewMonthsByDateOnly ==
    pc = "loop" =>
        \A i \in 1..Len(results) :
            LET r == results[i]
                stored == {ledger.lines[n][1] :
                              n \in {n \in 1..Len(ledger.lines) :
                                        strip(ledger.lines[n][2]) = r.fide_id}}
            IN  r.new_months =
                    SelectSeq(r.rating_history,
                              LAMBDA m : isoformat(Val(m.date)) \notin stored)

\* A result with a new month and with a month left out although the ledger
\* row of that month holds another standard rating.
C3_Witness ==
    /\ pc = "loop"
    /\ \E i \in 1..Len(results) :
          LET r == results[i]
          IN  /\ r.new_months # <<>>
              /\ \E j \in 1..Len(r.rating_history), n \in 1..Len(ledger.lines) :
                    /\ r.rating_history[j] \notin Range(r.new_months)
                    /\ strip(ledger.lines[n][2]) = r.fide_id
                    /\ ledger.lines[n][1] = isoformat(Val(r.rating_history[j].date))
                    /\ ledger.lines[n][4] # RatingCell(r.rating_history[j].standard)

\* C4: first-run totality: a result whose FIDE ID has no entry in the loaded
\* ledger view has its whole extracted history, in order, as new months.
C4_FirstRunTotality ==
    \A i \in 1..Len(results) :
        results[i].fide_id \notin DOMAIN historical_data
            => results[i].new_months = results[i].rating_history

\* A never-seen player with two months, next to a ledger that knows others.
C4_Witness ==
    /\ historical_data # <<>>
    /\ \E i \in 1..Len(results) :
          /\ results[i].fide_id \notin DOMAIN historical_data
          /\ Len(results[i].rating_history) = 2

\* C5: batch isolation: no failure ends the loop early; after each pass the
\* results hold, in order, the identifiers whose fetch met a 200 page with a
\* name or a history, and the errors hold exactly one entry for each other
\* identifier processed so far.
C5_BatchIsolation ==
    LET Succeeds(i) ==
            \E n \in 1..Len(fetch_log) :
                /\ fetch_log[n].position = i
                /\ fetch_log[n].reply.error = NoExc
                /\ fetch_log[n].reply.status_code = 200
                /\ \/ fetch_log[n].reply.page.player_name # None
                   \/ fetch_log[n].reply.page.rating_history # <<>>
        positions == [i \in 1..(idx - 1) |-> i]
        succeeded == SelectSeq(positions, Succeeds)
        failed == SelectSeq(positions, LAMBDA i : ~Succeeds(i))
    IN  /\ pc = "failed" => idx > Len(fide_ids)
        /\ idx - 1 <= Len(fide_ids)
        /\ [k \in 1..Len(results) |-> results[k].fide_id]
               = [k \in 1..Len(succeeded) |-> fide_ids[succeeded[k]]]
        /\ [k \in 1..Len(errors) |-> errors[k].fide_id]
               = [k \in 1..Len(failed) |-> fide_ids[failed[k]]]

\* The first of two identifiers met a connection error and the second one
\* is in the results.
C5_Witness ==
    /\ Len(fide_ids) = 2
    /\ idx = 3
    /\ Len(errors) = 1
    /\ errors[1] = Error("Network error", fide_ids[1])
    /\ Len(results) = 1
    /\ results[1].fide_id = fide_ids[2]

\* C6: last writer wins: for every month of every merged profile that is
\* the last of its (FIDE ID, Date) key among the updates, the ledger has
\* exactly one row of that key and it carries that profile's name and that
\* month's ratings.
C6_LastWriterWins ==
    pc = "written" =>
        \A i \in 1..Len(results) : \A j \in 1..Len(results[i].rating_history) :
            LET key(a, b) == <<results[a].fide_id,
                               isoformat(Val(results[a].rating_history[b].date))>>
                m == results[i].rating_history[j]
                is_last ==
                    \A a \in 1..Len(results) : \A b \in 1..Len(results[a].rating_history) :
                        (a > i \/ (a = i /\ b > j)) => key(a, b) # key(i, j)
                rows == {n \in 1..Len(ledger.lines) :
                            <<ledger.lines[n][2], ledger.lines[n][1]>> = key(i, j)}
            IN  is_last =>
                    /\ Cardinality(rows) = 1
                    /\ \A n \in rows :
                          ledger.lines[n] =
                              <<isoformat(Val(m.date)), results[i].fide_id,
                                results[i].player_name, RatingCell(m.standard),
                                RatingCell(m.rapid), RatingCell(m.blitz)>>

\* Two profiles of one player give the same month with different ratings,
\* and the ledger the run started with had that month under another name.
C6_Witness ==
    /\ pc = "written"
    /\ \E i, j \in 1..Len(results) :
          /\ i < j
          /\ results[i].fide_id = results[j].fide_id
          /\ results[i].fide_id \in DOMAIN historical_data
          /\ \E a \in 1..Len(results[i].rating_history),
                b \in 1..Len(results[j].rating_history),
                n \in 1..Len(historical_data[results[i].fide_id]) :
                /\ results[i].rating_history[a].date = results[j].rating_history[b].date
                /\ results[i].rating_history[a].standard
                       # results[j].rating_history[b].standard
                /\ historical_data[results[i].fide_id][n]["Date"]
                       = isoformat(Val(results[j].rating_history[b].date))
                /\ historical_data[results[i].fide_id][n]["Player Name"]
                       # results[j].player_name

C8_SortedOneRowPerKey ==
    pc = "written" =>
        /\ ledger.exists
        /\ ledger.header = fieldnames
        /\ \A a, b \in 1..Len(ledger.lines) :
              a < b => KeyLess(<<ledger.lines[a][2], ledger.lines[a][1]>>,
                               <<ledger.lines[b][2], ledger.lines[b][1]>>)

\* A ledger of three rows or more written from a batch whose profiles came
\* in descending order of FIDE ID.
C8_Witness ==
    /\ pc = "written"
    /\ Len(ledger.lines) >= 3
    /\ Len(results) = 2
    /\ StrLess(results[2].fide_id, results[1].fide_id)
    /\ results[1].rating_history # <<>>
    /\ results[2].rating_history # <<>>

\* C9: load_historical_ratings_by_player never fails on an unusable ledger:
\* no run ends in the load, and a file that is missing, empty, short of a
\* required column, unreadable or undecodable loads as the empty mapping.
C9_LoadNeverFails ==
    /\ ~(pc = "failed" /\ idx = 1)
    /\ (/\ pc = "loop"
        /\ \/ ~ledger.exists
           \/ ledger.fault \in {"PermissionError", "UnicodeDecodeError"}
           \/ ledger.header = <<>>
           \/ \E c \in Range(fieldnames) : c \notin Range(ledger.header))
           => historical_data = <<>>

\* The batch loop is entered with nothing loaded from an undecodable file
\* that has a data line.
C9_Witness ==
    /\ pc = "loop"
    /\ ledger.fault = "UnicodeDecodeError"
    /\ ledger.lines # <<>>
    /\ historical_data = <<>>

\* C10: when the ledger file exists but cannot be read, or its columns are
\* not the six expected ones, the end-of-batch write raises nothing and the
\* file it leaves holds every row that merging the results into an empty
\* ledger gives.
C10_UnusableLedgerNotPropagated ==
    [][(/\ pc = "loop"
        /\ pc' # "loop"
        /\ ledger.exists
        /\ \/ ledger.fault # NoExc
           \/ Range(ledger.header) # Range(fieldnames))
          => /\ exc' = NoExc
             /\ Range(write_csv_output(AbsentFile, results).file.lines)
                    \subseteq Range(ledger'.lines)
      ]_vars

\* C11: in one run the ledger is loaded once, before any identifier is
\* processed, and written exactly once, after the loop has passed every
\* identifier and before send_batch_notifications, which comes before
\* send_batch_api_updates; the loop of process_batch never writes the
\* ledger, and no step but the write changes the file.
C11_ReadOnceWrittenOnce ==
    /\ [](LET main_calls == <<"load_historical_ratings_by_player",
                              "write_csv_output",
                              "send_batch_notifications",
                              "send_batch_api_updates">>
              writes == {n \in 1..Len(calls) : calls[n] = "write_csv_output"}
          IN  /\ Len(calls) <= Len(main_calls)
              /\ calls = SubSeq(main_calls, 1, Len(calls))
              /\ (idx > 1 \/ fetch_log # <<>>)
                     => calls # <<>> /\ calls[1] = "load_historical_ratings_by_player"
              /\ pc = "loop" => writes = {}
              /\ writes # {} => idx = Len(fide_ids) + 1
              /\ pc \in {"written", "notified", "posted"} => Cardinality(writes) = 1
              /\ pc = "posted" => calls = main_calls)
    /\ [][ledger' # ledger =>
             /\ pc = "loop"
             /\ idx = Len(fide_ids) + 1
             /\ calls' = Append(calls, "write_csv_output")]_vars

\* A run of two successful identifiers against a ledger that had rows has
\* come to the end of send_batch_api_updates.
C11_Witness ==
    /\ pc = "posted"
    /\ Len(results) = 2
    /\ historical_data # <<>>

\* C12: snapshot consistency: throughout the loop every result's new months
\* are the months of the page its fetch met that are not dated in a row of
\* that FIDE ID in the ledger file as the run found it, whatever the
\* position of the identifier and whatever was processed before it.
C12_SnapshotConsistency ==
    pc = "loop" =>
        LET rows == IF ledger.exists THEN DictReader(ledger) ELSE <<>>
            stored(id) ==
                {Get(rows[n], "Date", <<>>) :
                    n \in {n \in 1..Len(rows) :
                              strip(Get(rows[n], "FIDE ID", <<>>)) = id}}
            met == SelectSeq(fetch_log,
                             LAMBDA e : /\ e.reply.error = NoExc
                                        /\ e.reply.status_code = 200
                                        /\ \/ e.reply.page.player_name # None
                                           \/ e.reply.page.rating_history # <<>>)
        IN  /\ Len(met) = Len(results)
            /\ \A k \in 1..Len(results) :
                  /\ results[k].fide_id = met[k].fide_id
                  /\ results[k].new_months =
                         SelectSeq(met[k].reply.page.rating_history,
                                   LAMBDA m : isoformat(Val(m.date))
                                                  \notin stored(met[k].fide_id))

\* The same player processed twice from the same page: both results report
\* the same new month and leave out the same stored one.
C12_Witness ==
    /\ pc = "loop"
    /\ Len(results) = 2
    /\ results[1].fide_id = results[2].fide_id
    /\ results[1].rating_history = results[2].rating_history
    /\ results[1].new_months = results[2].new_months
    /\ results[1].new_months # <<>>
    /\ results[1].new_months # results[1].rating_history

\* C13: the merge takes each successful player's full extracted history:
\* after the write, for every identifier with one result, every record of
\* its history is a ledger row with the extracted name and that record's
\* ratings, while its new months are only months the start-of-batch ledger
\* did not have for it.
C13_FullHistoryMerged ==
    pc = "written" =>
        \A i \in 1..Len(results) :
            LET r == results[i]
            IN  (\A k \in 1..Len(results) : results[k].fide_id = r.fide_id => k = i)
                => /\ \A j \in 1..Len(r.rating_history) :
                         LET m == r.rating_history[j]
                         IN  <<isoformat(Val(m.date)), r.fide_id, r.player_name,
                               RatingCell(m.standard), RatingCell(m.rapid),
                               RatingCell(m.blitz)>> \in Range(ledger.lines)
                   /\ \A j \in 1..Len(r.new_months) :
                         isoformat(Val(r.new_months[j].date))
                             \notin stored_months(r.fide_id, historical_data)

\* C14: the outcome list of process_batch has one structured entry for every
\* identifier processed, failed ones included.
C14_OutcomeForEveryIdentifier ==
    Len(results) = idx - 1

\* C14, as the code has it: every identifier processed has exactly one entry
\* in exactly one of two lists: a structured result (identifier, name,
\* current ratings, full history, new months) if it succeeded, an error
\* naming the identifier and one of the seven failure reasons if it failed.
C14_ResultOrErrorForEveryIdentifier ==
    LET processed == idx - 1
        Count(entries, id) ==
            Cardinality({k \in 1..Len(entries) : entries[k].fide_id = id})
    IN  /\ Len(results) + Len(errors) = processed
        /\ \A id \in Range(fide_ids) :
               Count(results, id) + Count(errors, id)
                   = Cardinality({p \in 1..processed : fide_ids[p] = id})
        /\ \A k \in 1..Len(results) :
               DOMAIN results[k] = {"fide_id", "player_name", "standard", "rapid",
                                    "blitz", "rating_history", "new_months"}
        /\ \A k \in 1..Len(errors) :
               /\ DOMAIN errors[k] = {"kind", "fide_id"}
               /\ errors[k].kind \in
                      {"Invalid FIDE ID format", "Player not found",
                       "Unable to extract data", "Network error",
                       "Request timeout", "HTTP error", "Unexpected error"}

\* Two identifiers processed: the first timed out and has an error and no
\* result, the second has a result.
C14_Witness ==
    /\ idx = 3
    /\ Len(results) = 1
    /\ results[1].fide_id = fide_ids[2]
    /\ errors = <<Error("Request timeout", fide_ids[1])>>

\* C15: outcomes come in input order: the FIDE IDs of the results, and those
\* of the errors, each make a subsequence of the identifiers processed so
\* far.
C15_InputOrder ==
    LET ids(entries) == [k \in 1..Len(entries) |-> entries[k].fide_id]
        processed == SubSeq(fide_ids, 1, idx - 1)
        IsSubsequence(s, t) ==
            \E f \in [1..Len(s) -> 1..Len(t)] :
                /\ \A a, b \in 1..Len(s) : a < b => f[a] < f[b]
                /\ \A k \in 1..Len(s) : t[f[k]] = s[k]
    IN  /\ IsSubsequence(ids(results), processed)
        /\ IsSubsequence(ids(errors), processed)

\* Results of two different players, in the order the list named them.
C15_Witness ==
    /\ Len(results) = 2
    /\ results[1].fide_id # results[2].fide_id
    /\ results[1].fide_id = fide_ids[1]

\* C16: the merge does not depend on the order of the profiles: with at
\* most one result per identifier, handing write_csv_output the results in
\* any order leaves the same file.
C16_MergeOrderIndependent ==
    (/\ pc = "loop"
     /\ \A i, j \in 1..Len(results) :
            results[i].fide_id = results[j].fide_id => i = j)
        => \A perm \in Permutations(1..Len(results)) :
               write_csv_output(ledger, [k \in 1..Len(results) |-> results[perm[k]]])
                   = write_csv_output(ledger, results)

\* Results of two players who share a month, about to be merged into a
\* ledger that has rows.
C16_Witness ==
    /\ pc = "loop"
    /\ ledger.exists
    /\ ledger.lines # <<>>
    /\ Len(results) = 2
    /\ results[1].fide_id # results[2].fide_id
    /\ \E a \in 1..Len(results[1].rating_history),
          b \in 1..Len(results[2].rating_history) :
          results[1].rating_history[a].date = results[2].rating_history[b].date

\* C17: dedup keeps first: the deduplicated rows are exactly the raw rows
\* that no earlier raw row shares the month label with, in their original
\* order; every later row of a label is dropped.
C17_DedupKeepsFirst ==
    pc \in {"deduplicated", "final"} =>
        LET firsts ==
                SelectSeq([i \in 1..Len(raw_history) |-> i],
                          LAMBDA i : \A j \in 1..(i - 1) :
                                         raw_history[j].month_year_str
                                             # raw_history[i].month_year_str)
        IN  deduplicated = [k \in 1..Len(firsts) |-> raw_history[firsts[k]]]

\* Two raw rows of one label with different ratings: the first is kept.
C17_Witness ==
    /\ pc = "deduplicated"
    /\ Len(raw_history) = 2
    /\ raw_history[1].month_year_str = raw_history[2].month_year_str
    /\ raw_history[1] # raw_history[2]
    /\ deduplicated = <<raw_history[1]>>

\* C18: no two records of an extracted history share their month-end date.
C18_UniqueMonthEndDates ==
    pc = "final" =>
        \A a, b \in 1..Len(final_records) :
            a < b => final_records[a].date # final_records[b].date

\* C19: month-end correctness: the record of a row labelled <year>-<Mon>,
\* for every month and every year of the calendar, is dated the last day of
\* that month: the day before the first of the next month, counting days
\* in the proleptic Gregorian calendar.
C19_MonthEndCorrect ==
    LET DaysFromCivil(y, m) ==
            LET yy == IF m <= 2 THEN y - 1 ELSE y
                era == yy \div 400
                yoe == yy - era * 400
                doy == (153 * ((m + 9) % 12) + 2) \div 5
            IN  era * 146097 + yoe * 365 + yoe \div 4 - yoe \div 100 + doy
        DaysIn(y, m) ==
            (IF m = 12 THEN DaysFromCivil(y + 1, 1) ELSE DaysFromCivil(y, m + 1))
                - DaysFromCivil(y, m)
    IN  \A year \in CalendarYears, month \in 1..12 :
            (/\ pc = "final"
             /\ Len(table) = 1
             /\ Len(table[1]) >= 6
             /\ table[1][1] = Label(year, month))
                => /\ Len(final_records) = 1
                   /\ final_records[1].date =
                          Some([year |-> year, month |-> month,
                                day |-> DaysIn(year, month)])

\* February of the leap year 2024 has come out as the 29th.
C19_Witness ==
    /\ pc = "final"
    /\ Len(table) = 1
    /\ table[1][1] = Label(2024, 2)
    /\ final_records # <<>>
    /\ final_records[1].date = Some([year |-> 2024, month |-> 2, day |-> 29])

\* C20: unrated tolerance: a data row with the three rating cells, a label
\* that parses and every rating cell empty or "Not rated" in any letter case
\* gives a raw row without ratings, and, unless an earlier row had the same
\* label, a record of that month with standard, rapid and blitz all None.
C20_UnratedTolerance ==
    LET no_rating(cell) == strip(cell) = <<>> \/ lower(strip(cell)) = NotRated
        label(i) == strip(table[i][1])
        unrated_row(i) ==
            /\ Len(table[i]) >= 6
            /\ parse_month_year_string(label(i)) # None
            /\ no_rating(table[i][2])
            /\ no_rating(table[i][4])
            /\ no_rating(table[i][6])
    IN  \A i \in 1..Len(table) :
            unrated_row(i) =>
                /\ pc # "html" =>
                       [month_year_str |-> label(i), standard |-> None,
                        rapid |-> None, blitz |-> None] \in Range(raw_history)
                /\ (pc = "final" /\ \A j \in 1..(i - 1) : label(j) # label(i)) =>
                       [date |-> parse_month_year_string(label(i)), standard |-> None,
                        rapid |-> None, blitz |-> None] \in Range(final_records)

\* A table of a rated month and a month without ratings has given two
\* records, the second with no rating at all.
C20_Witness ==
    /\ pc = "final"
    /\ Len(table) = 2
    /\ table[2] = UnratedRow
    /\ Len(final_records) = 2
    /\ final_records[1].standard # None
    /\ final_records[2].standard = None
    /\ final_records[2].rapid = None
    /\ final_records[2].blitz = None

\* C24: every rating of every extracted row and record is None or an
\* integer from 0 to 4000: a cell that spells an integer of that range gives
\* that integer, 0 and 4000 included, and a cell that spells a greater or a
\* negative integer, or no integer, gives None.
C24_RatingRange ==
    LET in_range(v) == v = None \/ (Val(v) \in Int /\ 0 <= Val(v) /\ Val(v) <= 4000)
        read(cell) ==
            IF \E n \in {0, 1500, 1884, 1900, 2440, 2445, 2450, 4000} : cell = IntToStr(n)
            THEN Some(CHOOSE n \in 0..4000 : cell = IntToStr(n))
            ELSE None
        rows == SelectSeq(table, LAMBDA cells : Len(cells) >= 6 /\ strip(cells[1]) # <<>>)
    IN  /\ \A i \in 1..Len(raw_history) :
              /\ in_range(raw_history[i].standard)
              /\ in_range(raw_history[i].rapid)
              /\ in_range(raw_history[i].blitz)
        /\ \A i \in 1..Len(final_records) :
              /\ in_range(final_records[i].standard)
              /\ in_range(final_records[i].rapid)
              /\ in_range(final_records[i].blitz)
        /\ pc # "html" =>
              /\ Len(raw_history) = Len(rows)
              /\ \A i \in 1..Len(rows) :
                    /\ raw_history[i].standard = read(rows[i][2])
                    /\ raw_history[i].rapid = read(rows[i][4])
                    /\ raw_history[i].blitz = read(rows[i][6])

\* Records with 4000 and 0 kept as numbers beside -1 read as unrated, and
\* with 4001 read as unrated.
C24_Witness ==
    /\ pc = "final"
    /\ table = <<BoundaryRow, WildRow>>
    /\ Len(final_records) = 2
    /\ final_records[1].standard = Some(4000)
    /\ final_records[1].rapid = Some(0)
    /\ final_records[1].blitz = None
    /\ final_records[2].standard = None

\* C30: short rows are skipped without an error: the extracted rows are, in
\* order, exactly the data rows that have six cells or more and a label that
\* is not blank; rows of fewer than four cells and rows of four or five
\* cells add nothing.
C30_ShortRowsSkipped ==
    pc # "html" =>
        LET kept == SelectSeq(table, LAMBDA cells : /\ Len(cells) >= 6
                                                    /\ strip(cells[1]) # <<>>)
        IN  /\ Len(raw_history) = Len(kept)
            /\ \A i \in 1..Len(kept) : raw_history[i].month_year_str = strip(kept[i][1])

\* A row of five cells before a full row: only the full row is extracted.
C30_Witness ==
    /\ pc = "raw"
    /\ table = <<FiveCellRow, OctRow>>
    /\ Len(raw_history) = 1
    /\ raw_history[1].standard = Some(2440)

\* C23: main exits with status 0 exactly when the run got to its end with
\* at least one result, every identifier of the roster having been
\* processed; a run that got to its end with no result exits with status 1,
\* and then every identifier of the roster has its error entry.
C23_ExitStatus ==
    /\ pc # "exited" => exit_status = None
    /\ pc = "exited" =>
          /\ exit_status = Some(0) <=> (exc = NoExc /\ results # <<>>)
          /\ exit_status = Some(0) =>
                /\ idx = Len(fide_ids) + 1
                /\ ledger.exists
                /\ \A i \in 1..Len(results) : results[i].fide_id \in Range(fide_ids)
          /\ (exc = NoExc /\ results = <<>>) =>
                /\ exit_status = Some(1)
                /\ idx = Len(fide_ids) + 1
                /\ Len(errors) = Len(fide_ids)
                /\ \A i \in 1..Len(fide_ids) : errors[i].fide_id = fide_ids[i]

\* A run of two identifiers that both failed, one of them after a fetch,
\* has exited with status 1.
C23_Witness ==
    /\ pc = "exited"
    /\ exit_status = Some(1)
    /\ Len(fide_ids) = 2
    /\ Len(errors) = 2
    /\ Len(fetch_log) = 1
    /\ results = <<>>

\* C25: process_batch calls fetch_fide_profile only for an identifier of 4
\* to 10 decimal digits, and every other identifier gets an 'Invalid FIDE ID
\* format' error and no fetch.  The code tests str.isdigit(), which also
\* holds for digits that are not decimal digits, so this does not hold.
C25_FetchOnlyDecimalDigits ==
    LET decimal(fide_id) ==
            /\ Len(fide_id) >= 4
            /\ Len(fide_id) <= 10
            /\ \A i \in 1..Len(fide_id) : fide_id[i] \in Range(Digits)
    IN  /\ \A k \in 1..Len(fetch_log) : decimal(fetch_log[k].fide_id)
        /\ \A position \in 1..(idx - 1) :
              ~decimal(fide_ids[position]) =>
                  /\ \E k \in 1..Len(errors) :
                         errors[k] = Error("Invalid FIDE ID format", fide_ids[position])
                  /\ \A k \in 1..Len(fetch_log) : fetch_log[k].position # position

\* C26: fetch_fide_profile returns None exactly for status 404 and raises
\* for a connection error, a timeout and any other HTTP error status; a
\* pass of process_batch whose fetch met 404 appends a 'Player not found'
\* error and no result, and the other three append their own kind of error.
C26_NotFoundReportedApart ==
    /\ [](\A reply \in Replies :
             LET fetched == fetch_fide_profile(reply)
             IN  /\ (fetched.ret = None /\ fetched.exc = NoExc)
                        <=> (reply.error = NoExc /\ reply.status_code = 404)
                 /\ reply.error \in {"ConnectionError", "Timeout"}
                        => fetched.exc = reply.error
                 /\ (reply.error = NoExc /\ reply.status_code >= 400
                                         /\ reply.status_code # 404)
                        => fetched.exc = "HTTPError")
    /\ [][Len(fetch_log') = Len(fetch_log) + 1 =>
             LET met == fetch_log'[Len(fetch_log')]
                 reply == met.reply
                 reported(kind) == /\ errors' = Append(errors, Error(kind, met.fide_id))
                                   /\ results' = results
             IN  /\ (reply.error = NoExc /\ reply.status_code = 404)
                        <=> reported("Player not found")
                 /\ reply.error = "ConnectionError" <=> reported("Network error")
                 /\ reply.error = "Timeout" <=> reported("Request timeout")
                 /\ (reply.error = NoExc /\ reply.status_code >= 400
                                         /\ reply.status_code # 404)
                        <=> reported("HTTP error")]_vars

\* One identifier was not found and the next one met status 403.
C26_Witness ==
    /\ Len(fetch_log) = 2
    /\ fetch_log[1].reply.status_code = 404
    /\ fetch_log[2].reply.status_code = 403
    /\ results = <<>>
    /\ errors = <<Error("Player not found", fide_ids[1]), Error("HTTP error", fide_ids[2])>>

\* C27: a fetched page is an extraction failure exactly when it has neither
\* a rating history nor a player name; a page with a name and no history
\* gives a result whose history and new months are both empty.
C27_ExtractionFailure ==
    [][(/\ Len(fetch_log') = Len(fetch_log) + 1
        /\ fetch_log'[Len(fetch_log')].reply.error = NoExc
        /\ fetch_log'[Len(fetch_log')].reply.status_code = 200) =>
          LET met == fetch_log'[Len(fetch_log')]
              page == met.reply.page
              nameless == page.player_name \in {None, Some(<<>>)}
          IN  IF page.rating_history = <<>> /\ nameless
              THEN /\ errors' = Append(errors, Error("Unable to extract data", met.fide_id))
                   /\ results' = results
              ELSE /\ errors' = errors
                   /\ Len(results') = Len(results) + 1
                   /\ results'[Len(results')].fide_id = met.fide_id
                   /\ results'[Len(results')].rating_history = page.rating_history
                   /\ page.rating_history = <<>> =>
                         /\ results'[Len(results')].new_months = <<>>
                         /\ results'[Len(results')].player_name = Val(page.player_name)
                         /\ results'[Len(results')].standard = None]_vars

\* A page with nothing on it gave an error, and a page with a name and no
\* table gave a result with no history and no new month.
C27_Witness ==
    /\ Len(fetch_log) = 2
    /\ fetch_log[1].reply.page = NoPage
    /\ fetch_log[1].reply.status_code = 200
    /\ errors = <<Error("Unable to extract data", fide_ids[1])>>
    /\ Len(results) = 1
    /\ results[1].player_name = <<"A">>
    /\ results[1].rating_history = <<>>
    /\ results[1].new_months = <<>>

\* C28: every pass of the loop of process_batch adds one entry for its
\* identifier to exactly one of results and errors, so the two lists have
\* together as many entries as identifiers were processed, and as many as
\* the input has once the loop is over, repeated identifiers included.
C28_Partition ==
    /\ [](/\ Len(results) + Len(errors) = idx - 1
          /\ pc \in {"written", "notified", "posted", "exited"} =>
                Len(results) + Len(errors) = Len(fide_ids))
    /\ [][idx' = idx + 1 =>
             \/ /\ errors' = errors
                /\ Len(results') = Len(results) + 1
                /\ SubSeq(results', 1, Len(results)) = results
                /\ results'[Len(results')].fide_id = fide_ids[idx]
             \/ /\ results' = results
                /\ Len(errors') = Len(errors) + 1
                /\ SubSeq(errors', 1, Len(errors)) = errors
                /\ errors'[Len(errors')].fide_id = fide_ids[idx]]_vars

\* The same identifier twice: it succeeded once and failed once.
C28_Witness ==
    /\ pc = "written"
    /\ fide_ids = <<Id12345, Id12345>>
    /\ Len(results) = 1
    /\ Len(errors) = 1
    /\ results[1].fide_id = errors[1].fide_id

C22_BoundedSelectiveRetry ==
    /\ [](/\ post_count <= max_retries + 1
          /\ \A k \in 1..(post_count - 1) :
                \/ api_replies[k].error \in {"Timeout", "ConnectionError"}
                \/ api_replies[k].error = NoExc /\ api_replies[k].status_code >= 500
          /\ returned # None =>
                /\ Val(returned) <=> \E k \in 1..post_count :
                                        /\ api_replies[k].error = NoExc
                                        /\ api_replies[k].status_code = 200
                /\ Val(returned) = post_rating_to_api(api_replies, max_retries))
    /\ <>(pc = "returned" /\ returned # None)

\* With max_retries = 1 the first POST met status 500 and the second one
\* status 200: True after two POSTs.
C22_Witness ==
    /\ pc = "returned"
    /\ max_retries = 1
    /\ post_count = 2
    /\ api_replies[1].status_code = 500
    /\ returned = Some(TRUE)

\* C29: the ledger is written before the two senders are called, so after
\* them every month whose email or POST failed is in the ledger: a run over
\* the same pages that starts from this ledger finds no new month for that
\* player, and so sends nothing again.
C29_FailedDeliveryNotRetried ==
    pc \in {"notified", "posted", "exited"} =>
        LET stored == load_historical_ratings_by_player(ledger).ret
            new_again(i) == detect_new_months(results[i].fide_id,
                                              results[i].rating_history, stored)
            place(call) == {n \in 1..Len(calls) : calls[n] = call}
        IN  /\ \A n \in place("send_batch_notifications") \cup place("send_batch_api_updates") :
                  \E w \in place("write_csv_output") : w < n
            /\ \A k \in 1..Len(mail_log) :
                  mail_log[k].outcome # "sent" => new_again(mail_log[k].position) = <<>>
            /\ \A k \in 1..Len(post_log) :
                  ~post_log[k].success => new_again(post_log[k].position) = <<>>

\* A run after which one email was not sent and one POST failed.
C29_Witness ==
    /\ pc = "posted"
    /\ \E k \in 1..Len(mail_log) : mail_log[k].outcome = "not sent"
    /\ \E k \in 1..Len(post_log) : ~post_log[k].success
    /\ api_failed >= 1
    /\ email_failed >= 1

====
